---- MODULE Spec2Model ----
(***************************************************************************)
(* Lazy content-addressed reference cells: Link (src/src/link.rs) and      *)
(* AutoLink (src/src/auto_link.rs) over a StaticStore backend              *)
(* (src/src/store.rs).                                                     *)
(*                                                                         *)
(* One cell is observed at a time.  It is built by one of the four         *)
(* constructors, or decoded from the node a serialization wrote, and then  *)
(* driven through read / edit / save / free / serialize.  The backend is   *)
(* the host's: it is modelled as a content-addressed block store whose     *)
(* decode inverts encode, whose load_bytes returns what store_bytes        *)
(* stored, which follows the shape hint of store_bytes, and any call of    *)
(* which may fail.                                                         *)
(*                                                                         *)
(* Spec is that machine.  DecodeSpec runs the decoders alone               *)
(* (src/src/maybe_link.rs), over every shape of node.                      *)
(*                                                                         *)
(* Every record constructor lists its fields in the order in which the     *)
(* field names first occur in this module.  That is the order TLC sorts    *)
(* them into, so no record is ever re-sorted while another worker reads    *)
(* it.                                                                     *)
(***************************************************************************)
EXTENDS Integers, Sequences, FiniteSets, TLC

VARIABLES
    cell,     \* the cell: [kind, value, state]
    blocks,   \* the backend's content: a function Cid -> bytes
    last,     \* history: the last operation, its result and its backend calls
    hist      \* history: what the properties need to remember of the past

vars == <<cell, blocks, last, hist>>

----------------------------------------------------------------------------
(* Bounds and input sets *)

\* Longest value (a byte string) the caller ever puts in a cell.
MaxLen == 1

\* Most blocks the backend holds.
MaxBlocks == 2

Byte == {0, 1}

\* T is instantiated at byte strings; the caller uses the runs b b ... b.
Values == {[i \in 1..n |-> b] : n \in 0..MaxLen, b \in Byte}

\* Option<X>: <<>> is None, <<x>> is Some(x).
None == <<>>
Some(x) == <<x>>
Option(X) == {None} \cup {Some(x) : x \in X}

\* The (codec, multihash code) pairs in use: dag-cbor/sha2-256 and raw/blake2b.
Shapes ==
    { [codec |-> 113, mh_code |-> 18], [codec |-> 85, mh_code |-> 45600] }

\* The inlining threshold: AutoLink's const parameter S, instantiated small.
S == 1

----------------------------------------------------------------------------
(* Content addresses and the backend *)

\* A Cid: content-type tag, hash-function tag, digest.
Cid(codec, mh_code, digest) ==
    [codec |-> codec, mh_code |-> mh_code, digest |-> digest]

\* From<&Cid> for CidShape with the codec taken for both tags.
CidShapeFrom_codec_twice(k) == [codec |-> k.codec, mh_code |-> k.codec]

\* impl From<&Cid> for CidShape
CidShapeFrom(k) == [codec |-> k.codec, mh_code |-> k.mh_code]

\* The digest of a byte string: an injective numbering (1 then the bits).
RECURSIVE Digest(_)
Digest(bytes) ==
    IF bytes = <<>> THEN 1
    ELSE 2 * Digest(SubSeq(bytes, 1, Len(bytes) - 1)) + bytes[Len(bytes)]

\* StaticStore::encode: a length-prefixed string.
encode(v) == <<Len(v)>> \o v

\* StaticStore::decode: the inverse of encode; [ok, v].
decode(bytes) ==
    IF bytes # <<>> /\ Head(bytes) = Len(bytes) - 1
    THEN [v |-> Tail(bytes), ok |-> TRUE]
    ELSE [v |-> <<>>, ok |-> FALSE]

\* Which backend call of an operation fails, if it is reached: read and edit
\* reach load_bytes and decode, save and free reach encode and store_bytes.
LoadFaults == {"none", "load_bytes", "decode"}
StoreFaults == {"none", "encode", "store_bytes"}

\* One backend call in the history.
Call(fn, arg, shape, ok, out) ==
    [ok |-> ok, fn |-> fn, arg |-> arg, shape |-> shape, out |-> out]

\* StaticStore::load_bytes: NotFound when the address is unknown.
load_bytes(bl, k, f) ==
    LET ok == f # "load_bytes" /\ k \in DOMAIN bl
    IN  [v |-> IF ok THEN bl[k] ELSE <<>>, ok |-> ok,
         calls |-> <<Call("load_bytes", k, None, ok,
                          IF ok THEN Some(bl[k]) ELSE None)>>]

\* StaticStore::load = decode(load_bytes(key)?)
load(bl, k, f) ==
    LET lb == load_bytes(bl, k, f)
        d == decode(lb.v)
        ok == d.ok /\ f # "decode"
    IN  IF ~lb.ok THEN [v |-> <<>>, ok |-> FALSE, calls |-> lb.calls]
        ELSE [v |-> IF ok THEN d.v ELSE <<>>, ok |-> ok,
              calls |-> lb.calls \o
                  <<Call("decode", lb.v, None, ok,
                         IF ok THEN Some(d.v) ELSE None)>>]

\* The address the backend gives to bytes: of the hinted shape when a hint
\* is given ("the backend should use the same content-type/hash-function
\* combination"), of a shape of its own choice, `own`, otherwise.
AddressOf(bytes, shape, own) ==
    LET sh == IF shape # None THEN shape[1] ELSE own
    IN  Cid(sh.codec, sh.mh_code, Digest(bytes))

\* StaticStore::store_bytes: [ok, k, blocks, calls].
store_bytes(bl, bytes, shape, own, f) ==
    LET k == AddressOf(bytes, shape, own)
        ok == f # "store_bytes"
    IN  [blocks |-> IF ok THEN (k :> bytes) @@ bl ELSE bl, k |-> k,
         ok |-> ok,
         calls |-> <<Call("store_bytes", bytes, shape, ok,
                          IF ok THEN Some(k) ELSE None)>>]

\* The encode call of an operation: [ok, bytes, calls].
encode_call(v, f) ==
    LET ok == f # "encode"
    IN  [bytes |-> encode(v), ok |-> ok,
         calls |-> <<Call("encode", v, None, ok,
                          IF ok THEN Some(encode(v)) ELSE None)>>]

\* StaticStore::store that tries store_bytes a second time when it fails.
store_retrying(bl, v, shape, own, f) ==
    LET e == encode_call(v, f)
        sb == store_bytes(bl, e.bytes, shape, own, f)
    IN  IF ~e.ok
        THEN [blocks |-> bl, k |-> sb.k, ok |-> FALSE, calls |-> e.calls]
        ELSE [blocks |-> sb.blocks, k |-> sb.k, ok |-> sb.ok,
              calls |-> e.calls \o sb.calls
                        \o (IF sb.ok THEN <<>> ELSE sb.calls)]

\* StaticStore::store = store_bytes(encode(value)?, shape)
store(bl, v, shape, own, f) ==
    LET e == encode_call(v, f)
        sb == store_bytes(bl, e.bytes, shape, own, f)
    IN  IF ~e.ok
        THEN [blocks |-> bl, k |-> sb.k, ok |-> FALSE, calls |-> e.calls]
        ELSE [blocks |-> sb.blocks, k |-> sb.k, ok |-> sb.ok,
              calls |-> e.calls \o sb.calls]

\* Every address the backend can produce for a value of T.
Cids == {Cid(sh.codec, sh.mh_code, Digest(encode(v))) : sh \in Shapes, v \in Values}

----------------------------------------------------------------------------
(* The cells *)

\* enum LinkState
Unmodified(k) == [k |-> k, tag |-> "Unmodified"]
Modified(shape) == [shape |-> shape, tag |-> "Modified"]

\* enum InlineState
InlineModified == [tag |-> "Modified"]
Inlined == [tag |-> "Inlined"]
InlineLink(k) == [k |-> k, tag |-> "Link"]

\* enum MaybeLink
MaybeValue(v) == [v |-> v, tag |-> "Value"]
MaybeLinkTo(k) == [k |-> k, tag |-> "Link"]

\* What an operation did: res is "Ok", "Err" (the backend's error) or "Panic";
\* ret is Some(the returned thing) when res is "Ok".
Out(res, ret, c, bl, calls) ==
    [cell |-> c, blocks |-> bl, calls |-> calls, res |-> res, ret |-> ret]

\* Link::new
Link_new(k) == [kind |-> "Link", value |-> None, state |-> Unmodified(k)]

\* Link::from_value
Link_from_value(v, shape) ==
    [kind |-> "Link", value |-> Some(v), state |-> Modified(shape)]

\* Link::read that loads again although the value is cached.
Link_read_reload(c, bl, f) ==
    IF c.state.tag # "Unmodified"
    THEN IF c.value = None THEN Out("Panic", None, c, bl, <<>>)
         ELSE Out("Ok", c.value, c, bl, <<>>)
    ELSE LET l == load(bl, c.state.k, f)
         IN  IF l.ok
             THEN Out("Ok", Some(l.v), [c EXCEPT !.value = Some(l.v)], bl, l.calls)
             ELSE Out("Err", None, c, bl, l.calls)

\* Link::read: get_or_try_init(|| load(state.unwrap_unmodified()))
Link_read(c, bl, f) ==
    IF c.value # None THEN Out("Ok", c.value, c, bl, <<>>)
    ELSE IF c.state.tag # "Unmodified" THEN Out("Panic", None, c, bl, <<>>)
    ELSE LET l == load(bl, c.state.k, f)
         IN  IF l.ok
             THEN Out("Ok", Some(l.v), [c EXCEPT !.value = Some(l.v)], bl, l.calls)
             ELSE Out("Err", None, c, bl, l.calls)

\* Link::edit, as a plausible slip would have it: the cell is not marked.
Link_edit_unmarked(c, bl, f) ==
    IF c.state.tag = "Unmodified" /\ c.value = None
    THEN LET l == load(bl, c.state.k, f)
         IN  IF l.ok
             THEN Out("Ok", Some(l.v), [c EXCEPT !.value = Some(l.v)], bl, l.calls)
             ELSE Out("Err", None, c, bl, l.calls)
    ELSE IF c.value = None THEN Out("Panic", None, c, bl, <<>>)
    ELSE Out("Ok", c.value, c, bl, <<>>)

\* Link::edit, as a plausible slip would have it: the hint is dropped.
Link_edit_nohint(c, bl, f) ==
    IF c.state.tag = "Unmodified"
    THEN LET k == c.state.k
             l == IF c.value = None THEN load(bl, k, f)
                  ELSE [v |-> c.value[1], ok |-> TRUE, calls |-> <<>>]
         IN  IF l.ok
             THEN Out("Ok", Some(l.v),
                      [c EXCEPT !.value = Some(l.v), !.state = Modified(None)],
                      bl, l.calls)
             ELSE Out("Err", None, c, bl, l.calls)
    ELSE IF c.value = None THEN Out("Panic", None, c, bl, <<>>)
    ELSE Out("Ok", c.value, c, bl, <<>>)

\* Link::edit that marks the cell Modified before it loads.
Link_edit_marks_first(c, bl, f) ==
    IF c.state.tag = "Unmodified"
    THEN LET k == c.state.k
             m == [c EXCEPT !.state = Modified(Some(CidShapeFrom(k)))]
             l == IF c.value = None THEN load(bl, k, f)
                  ELSE [v |-> c.value[1], ok |-> TRUE, calls |-> <<>>]
         IN  IF l.ok
             THEN Out("Ok", Some(l.v), [m EXCEPT !.value = Some(l.v)], bl,
                      l.calls)
             ELSE Out("Err", None, m, bl, l.calls)
    ELSE IF c.value = None THEN Out("Panic", None, c, bl, <<>>)
    ELSE Out("Ok", c.value, c, bl, <<>>)

\* Link::edit: the value the returned reference points at is ret.
Link_edit(c, bl, f) ==
    IF c.state.tag = "Unmodified"
    THEN LET k == c.state.k
             l == IF c.value = None THEN load(bl, k, f)
                  ELSE [v |-> c.value[1], ok |-> TRUE, calls |-> <<>>]
         IN  IF l.ok
             THEN Out("Ok", Some(l.v),
                      [c EXCEPT !.value = Some(l.v),
                                !.state = Modified(Some(CidShapeFrom(k)))],
                      bl, l.calls)
             ELSE Out("Err", None, c, bl, l.calls)
    ELSE IF c.value = None THEN Out("Panic", None, c, bl, <<>>)
    ELSE Out("Ok", c.value, c, bl, <<>>)

\* Link::save that stores without the hint.
Link_save_nohint(c, bl, own, f) ==
    IF c.state.tag = "Unmodified" THEN Out("Ok", Some(c.state.k), c, bl, <<>>)
    ELSE IF c.value = None THEN Out("Panic", None, c, bl, <<>>)
    ELSE LET s == store(bl, c.value[1], None, own, f)
         IN  IF s.ok
             THEN Out("Ok", Some(s.k), [c EXCEPT !.state = Unmodified(s.k)],
                      s.blocks, s.calls)
             ELSE Out("Err", None, c, bl, s.calls)

\* Link::save that stores whenever a value is cached.
Link_save_eager(c, bl, own, f) ==
    IF c.value = None
    THEN IF c.state.tag = "Unmodified"
         THEN Out("Ok", Some(c.state.k), c, bl, <<>>)
         ELSE Out("Panic", None, c, bl, <<>>)
    ELSE LET h == IF c.state.tag = "Modified" THEN c.state.shape
                  ELSE Some(CidShapeFrom(c.state.k))
             s == store(bl, c.value[1], h, own, f)
         IN  IF s.ok
             THEN Out("Ok", Some(s.k), [c EXCEPT !.state = Unmodified(s.k)],
                      s.blocks, s.calls)
             ELSE Out("Err", None, c, bl, s.calls)

\* Link::save that leaves the cell Modified after storing.
Link_save_stays_modified(c, bl, own, f) ==
    IF c.state.tag = "Unmodified" THEN Out("Ok", Some(c.state.k), c, bl, <<>>)
    ELSE IF c.value = None THEN Out("Panic", None, c, bl, <<>>)
    ELSE LET s == store(bl, c.value[1], c.state.shape, own, f)
         IN  IF s.ok THEN Out("Ok", Some(s.k), c, s.blocks, s.calls)
             ELSE Out("Err", None, c, bl, s.calls)

\* Link::save
Link_save(c, bl, own, f) ==
    IF c.state.tag = "Unmodified" THEN Out("Ok", Some(c.state.k), c, bl, <<>>)
    ELSE IF c.value = None THEN Out("Panic", None, c, bl, <<>>)
    ELSE LET s == store(bl, c.value[1], c.state.shape, own, f)
         IN  IF s.ok
             THEN Out("Ok", Some(s.k), [c EXCEPT !.state = Unmodified(s.k)],
                      s.blocks, s.calls)
             ELSE Out("Err", None, c, bl, s.calls)

\* Link::free that keeps the cached value.
Link_free_keeps(c, bl, own, f) == Link_save(c, bl, own, f)

\* Link::free that discards the cached value before it saves.
Link_free_discards(c, bl, own, f) ==
    LET s == Link_save(c, bl, own, f)
    IN  Out(s.res, s.ret, [s.cell EXCEPT !.value = None], s.blocks, s.calls)

\* Link::free
Link_free(c, bl, own, f) ==
    LET s == Link_save(c, bl, own, f)
    IN  IF s.res = "Ok"
        THEN Out("Ok", s.ret, [s.cell EXCEPT !.value = None], s.blocks, s.calls)
        ELSE s

\* AutoLink::from_cid
AutoLink_from_cid(k) ==
    [kind |-> "AutoLink", value |-> None, state |-> InlineLink(k)]

\* AutoLink::from_value
AutoLink_from_value(v) ==
    [kind |-> "AutoLink", value |-> Some(v), state |-> InlineModified]

\* AutoLink::read that loads again although the value is cached.
AutoLink_read_reload(c, bl, f) ==
    IF c.state.tag # "Link"
    THEN IF c.value = None THEN Out("Panic", None, c, bl, <<>>)
         ELSE Out("Ok", c.value, c, bl, <<>>)
    ELSE LET l == load(bl, c.state.k, f)
         IN  IF l.ok
             THEN Out("Ok", Some(l.v), [c EXCEPT !.value = Some(l.v)], bl, l.calls)
             ELSE Out("Err", None, c, bl, l.calls)

\* AutoLink::read: get_or_try_init(|| load(state.unwrap_ref()))
AutoLink_read(c, bl, f) ==
    IF c.value # None THEN Out("Ok", c.value, c, bl, <<>>)
    ELSE IF c.state.tag # "Link" THEN Out("Panic", None, c, bl, <<>>)
    ELSE LET l == load(bl, c.state.k, f)
         IN  IF l.ok
             THEN Out("Ok", Some(l.v), [c EXCEPT !.value = Some(l.v)], bl, l.calls)
             ELSE Out("Err", None, c, bl, l.calls)

\* AutoLink::edit that marks the cell Modified whatever its state, as
\* Link::edit does.
AutoLink_edit_marks(c, bl, f) ==
    IF c.state.tag = "Link" /\ c.value = None
    THEN LET l == load(bl, c.state.k, f)
         IN  IF l.ok
             THEN Out("Ok", Some(l.v),
                      [c EXCEPT !.value = Some(l.v), !.state = InlineModified],
                      bl, l.calls)
             ELSE Out("Err", None, c, bl, l.calls)
    ELSE IF c.value = None THEN Out("Panic", None, c, bl, <<>>)
    ELSE Out("Ok", c.value, [c EXCEPT !.state = InlineModified], bl, <<>>)

\* AutoLink::edit that leaves a cell in state Link as it is.
AutoLink_edit_unmarked(c, bl, f) ==
    IF c.state.tag = "Link" /\ c.value = None
    THEN LET l == load(bl, c.state.k, f)
         IN  IF l.ok
             THEN Out("Ok", Some(l.v), [c EXCEPT !.value = Some(l.v)], bl, l.calls)
             ELSE Out("Err", None, c, bl, l.calls)
    ELSE IF c.value = None THEN Out("Panic", None, c, bl, <<>>)
    ELSE Out("Ok", c.value, c, bl, <<>>)

\* AutoLink::edit
AutoLink_edit(c, bl, f) ==
    IF c.state.tag = "Link"
    THEN LET k == c.state.k
             l == IF c.value = None THEN load(bl, k, f)
                  ELSE [v |-> c.value[1], ok |-> TRUE, calls |-> <<>>]
         IN  IF l.ok
             THEN Out("Ok", Some(l.v),
                      [c EXCEPT !.value = Some(l.v), !.state = InlineModified],
                      bl, l.calls)
             ELSE Out("Err", None, c, bl, l.calls)
    ELSE IF c.value = None THEN Out("Panic", None, c, bl, <<>>)
    ELSE Out("Ok", c.value, c, bl, <<>>)

\* AutoLink::save with `<` for `<=` in the size test.
AutoLink_save_strict(c, bl, own, f) ==
    IF c.state.tag = "Link"
    THEN Out("Ok", Some(MaybeLinkTo(c.state.k)), c, bl, <<>>)
    ELSE IF c.value = None THEN Out("Panic", None, c, bl, <<>>)
    ELSE IF c.state.tag = "Inlined"
    THEN Out("Ok", Some(MaybeValue(c.value[1])), c, bl, <<>>)
    ELSE LET e == encode_call(c.value[1], f)
             sb == store_bytes(bl, e.bytes, None, own, f)
         IN  IF ~e.ok THEN Out("Err", None, c, bl, e.calls)
             ELSE IF Len(e.bytes) < S
             THEN Out("Ok", Some(MaybeValue(c.value[1])),
                      [c EXCEPT !.state = Inlined], bl, e.calls)
             ELSE IF sb.ok
             THEN Out("Ok", Some(MaybeLinkTo(sb.k)),
                      [c EXCEPT !.state = InlineLink(sb.k)], sb.blocks,
                      e.calls \o sb.calls)
             ELSE Out("Err", None, c, bl, e.calls \o sb.calls)

\* AutoLink::save that moves to Link before store_bytes has succeeded.
AutoLink_save_links_first(c, bl, own, f) ==
    IF c.state.tag = "Link"
    THEN Out("Ok", Some(MaybeLinkTo(c.state.k)), c, bl, <<>>)
    ELSE IF c.value = None THEN Out("Panic", None, c, bl, <<>>)
    ELSE IF c.state.tag = "Inlined"
    THEN Out("Ok", Some(MaybeValue(c.value[1])), c, bl, <<>>)
    ELSE LET e == encode_call(c.value[1], f)
             sb == store_bytes(bl, e.bytes, None, own, f)
             linked == [c EXCEPT !.state = InlineLink(sb.k)]
         IN  IF ~e.ok THEN Out("Err", None, c, bl, e.calls)
             ELSE IF Len(e.bytes) <= S
             THEN Out("Ok", Some(MaybeValue(c.value[1])),
                      [c EXCEPT !.state = Inlined], bl, e.calls)
             ELSE IF sb.ok
             THEN Out("Ok", Some(MaybeLinkTo(sb.k)), linked, sb.blocks,
                      e.calls \o sb.calls)
             ELSE Out("Err", None, linked, bl, e.calls \o sb.calls)

\* AutoLink::save
AutoLink_save(c, bl, own, f) ==
    IF c.state.tag = "Link"
    THEN Out("Ok", Some(MaybeLinkTo(c.state.k)), c, bl, <<>>)
    ELSE IF c.value = None THEN Out("Panic", None, c, bl, <<>>)
    ELSE IF c.state.tag = "Inlined"
    THEN Out("Ok", Some(MaybeValue(c.value[1])), c, bl, <<>>)
    ELSE LET e == encode_call(c.value[1], f)
             sb == store_bytes(bl, e.bytes, None, own, f)
         IN  IF ~e.ok THEN Out("Err", None, c, bl, e.calls)
             ELSE IF Len(e.bytes) <= S
             THEN Out("Ok", Some(MaybeValue(c.value[1])),
                      [c EXCEPT !.state = Inlined], bl, e.calls)
             ELSE IF sb.ok
             THEN Out("Ok", Some(MaybeLinkTo(sb.k)),
                      [c EXCEPT !.state = InlineLink(sb.k)], sb.blocks,
                      e.calls \o sb.calls)
             ELSE Out("Err", None, c, bl, e.calls \o sb.calls)

\* The caller's assignment through the reference edit returned (DerefMut).
write(c, w) == [c EXCEPT !.value = Some(w)]

----------------------------------------------------------------------------
(* The wire: nodes of a self-describing format, and the serde impls *)

\* A node, as the format's deserialize_any presents it to a visitor: a
\* primitive ("bool", "u64", "str", "bytes") or a sequence or mapping with
\* its content, none, unit, a presence marker or a single-field wrapper
\* (newtype struct) around a node.
NPrim(form, val) == [form |-> form, val |-> val]
NBytes(bytes) == NPrim("bytes", bytes)
NSeq(elems) == NPrim("seq", elems)
NMap(entries) == NPrim("map", entries)
NNone == [form |-> "none"]
NUnit == [form |-> "unit"]
NSome(n) == [form |-> "some", inner |-> n]
NNewtype(n) == [form |-> "newtype", inner |-> n]

\* Result<X, D::Error> of a decoder.
Decoded(x) == [v |-> x, ok |-> TRUE]
FormatError == [v |-> None, ok |-> FALSE]

\* T's Serialize: a byte string is written as a byte string.
T_serialize(v) == NBytes(v)

\* T's Deserialize: a byte string is read from a byte string or from a
\* sequence of bytes, and from nothing else.
T_deserialize(n) ==
    IF n.form \in {"bytes", "seq"} THEN Decoded(n.val) ELSE FormatError

\* Cid::to_bytes: the version, the two tags and the digest.
CidBytes(k) == <<1, k.codec, k.mh_code, k.digest>>

\* Cid::try_from(bytes)
Cid_try_from(bytes) ==
    IF Len(bytes) = 4 /\ bytes[1] = 1
    THEN Decoded(Cid(bytes[2], bytes[3], bytes[4]))
    ELSE FormatError

\* Cid's Serialize: the bytes inside the single-field wrapper.
Cid_serialize(k) == NNewtype(NBytes(CidBytes(k)))

\* deserializer.deserialize_bytes(BytesToCidVisitor)
BytesToCid(n) == IF n.form = "bytes" THEN Cid_try_from(n.val) ELSE FormatError

\* Cid's Deserialize: the wrapper, then the bytes.
Cid_deserialize(n) ==
    IF n.form = "newtype" THEN BytesToCid(n.inner) ELSE FormatError

\* impl Serialize for MaybeLink
MaybeLink_serialize(m) ==
    IF m.tag = "Value" THEN T_serialize(m.v) ELSE Cid_serialize(m.k)

\* visit_value and the visit_none, visit_seq, visit_map arms: T is decoded
\* from the node and wrapped in Value.
visit_value(n) ==
    LET t == T_deserialize(n)
    IN  IF t.ok THEN Decoded(MaybeValue(t.v)) ELSE FormatError

\* The forms MaybeLinkVisitor decodes as a value of T.
ValueForms == {"bool", "u64", "str", "bytes", "none", "seq", "map"}

\* MaybeLink's Deserialize that looks through the wrapper and decodes T from
\* what it holds.
RECURSIVE MaybeLink_deserialize_unwrapping(_)
MaybeLink_deserialize_unwrapping(n) ==
    CASE n.form \in {"some", "newtype"} ->
            MaybeLink_deserialize_unwrapping(n.inner)
      [] n.form \in ValueForms -> visit_value(n)
      [] OTHER -> FormatError

\* MaybeLink's Deserialize that takes a byte string for an address whenever
\* it parses as one.
RECURSIVE MaybeLink_deserialize_sniffing(_)
MaybeLink_deserialize_sniffing(n) ==
    CASE n.form = "some" -> MaybeLink_deserialize_sniffing(n.inner)
      [] n.form = "newtype" \/ (n.form = "bytes" /\ Cid_try_from(n.val).ok) ->
            LET k == BytesToCid(IF n.form = "newtype" THEN n.inner ELSE n)
            IN  IF k.ok THEN Decoded(MaybeLinkTo(k.v)) ELSE FormatError
      [] n.form \in ValueForms -> visit_value(n)
      [] OTHER -> FormatError

\* impl Deserialize for MaybeLink: deserialize_any(MaybeLinkVisitor).  The
\* visitor has no visit_unit, so serde's default refuses a unit.
RECURSIVE MaybeLink_deserialize(_)
MaybeLink_deserialize(n) ==
    CASE n.form = "some" -> MaybeLink_deserialize(n.inner)
      [] n.form = "newtype" ->
            LET k == BytesToCid(n.inner)
            IN  IF k.ok THEN Decoded(MaybeLinkTo(k.v)) ELSE FormatError
      [] n.form \in ValueForms -> visit_value(n)
      [] OTHER -> FormatError

\* Link's Serialize that writes the cached value itself when there is one.
Link_serialize_inline(c, bl, own, f) ==
    LET o == Link_save(c, bl, own, f)
    IN  IF o.res = "Ok"
        THEN Out("Ok",
                 Some(IF o.cell.value # None THEN T_serialize(o.cell.value[1])
                      ELSE Cid_serialize(o.ret[1])),
                 o.cell, o.blocks, o.calls)
        ELSE o

\* impl Serialize for Link: save, then the address.  ret is the node.
Link_serialize(c, bl, own, f) ==
    LET o == Link_save(c, bl, own, f)
    IN  IF o.res = "Ok"
        THEN Out("Ok", Some(Cid_serialize(o.ret[1])), o.cell, o.blocks, o.calls)
        ELSE o

\* impl Deserialize for Link
Link_deserialize(n) ==
    LET k == Cid_deserialize(n)
    IN  IF k.ok THEN Decoded(Link_new(k.v)) ELSE FormatError

\* impl Serialize for AutoLink: save, then the form.  ret is the node.
AutoLink_serialize(c, bl, own, f) ==
    LET o == AutoLink_save(c, bl, own, f)
    IN  IF o.res = "Ok"
        THEN Out("Ok", Some(MaybeLink_serialize(o.ret[1])), o.cell, o.blocks,
                 o.calls)
        ELSE o

\* AutoLink's Deserialize that takes a value found inline for Inlined.
AutoLink_deserialize_inlined(n) ==
    LET m == MaybeLink_deserialize(n)
    IN  IF ~m.ok THEN FormatError
        ELSE IF m.v.tag = "Value"
        THEN Decoded([AutoLink_from_value(m.v.v) EXCEPT !.state = Inlined])
        ELSE Decoded(AutoLink_from_cid(m.v.k))

\* impl Deserialize for AutoLink
AutoLink_deserialize(n) ==
    LET m == MaybeLink_deserialize(n)
    IN  IF ~m.ok THEN FormatError
        ELSE IF m.v.tag = "Value" THEN Decoded(AutoLink_from_value(m.v.v))
        ELSE Decoded(AutoLink_from_cid(m.v.k))

----------------------------------------------------------------------------
(* History *)

\* The store_bytes calls among `calls`.
NStores(calls) ==
    Cardinality({i \in 1..Len(calls) : calls[i].fn = "store_bytes"})

\* last.op, last.res, last.ret  the operation, how it ended, what it returned
\* last.calls  the backend calls it made, in order
\* last.pre    the cell and the history it started from
Record(op, o, c, h) ==
    [calls |-> o.calls, res |-> o.res, ret |-> o.ret, op |-> op,
     pre |-> [cell |-> c, edited |-> h.edited, saved |-> h.saved,
              released |-> h.released, stored |-> h.stored,
              decoded |-> h.decoded]]

\* The record of a constructor.
NoPre ==
    [cell |-> None, edited |-> FALSE, saved |-> None, released |-> None,
     stored |-> FALSE, decoded |-> FALSE]
Constructed(op) ==
    [calls |-> <<>>, res |-> "Ok", ret |-> None, op |-> op, pre |-> NoPre]

\* The record of a deserialization of node n as a cell of kind `kind`, d
\* being what Cid::deserialize or MaybeLink::deserialize made of n.
Deserialized(kind, n, d) ==
    [calls |-> <<>>, res |-> IF d.ok THEN "Ok" ELSE "Err",
     ret |-> IF d.ok THEN Some(d.v) ELSE None, kind |-> kind,
     op |-> "deserialize", pre |-> NoPre, node |-> n]

\* hist.edited    an edit succeeded since the cell was built or last saved
\* hist.saved     Some([ret, stores]): the result of the last successful save
\*                (or free) since the cell was built or last edited, and the
\*                store_bytes calls those saves made together
\* hist.born      Some(shape of a) for a Link built by Link::new(a)
\* hist.released  Some(the cache before it) after a successful free, until
\*                the next operation that succeeds
\* hist.stored    a save (or free) of this cell has stored it in the backend
\* hist.decoded   the cell was deserialized and no edit or save has succeeded
\*                since
\* hist.loads     the loads that have succeeded since the cell was built or
\*                last released
Fresh(born) ==
    [edited |-> FALSE, saved |-> None, released |-> None, stored |-> FALSE,
     decoded |-> FALSE, born |-> born, loads |-> 0]

\* The loads among `calls` that succeeded: load_bytes, then decode.
NLoads(calls) ==
    Cardinality({i \in 1..Len(calls) : calls[i].fn = "decode" /\ calls[i].ok})

\* More loads than the properties tell apart are counted as MaxLoads.
MaxLoads == 2
Loads(h, o) ==
    IF h.loads + NLoads(o.calls) < MaxLoads THEN h.loads + NLoads(o.calls)
    ELSE MaxLoads

AfterRead(h, o) ==
    IF o.res = "Ok" THEN [h EXCEPT !.released = None, !.loads = Loads(h, o)]
    ELSE h

AfterEdit(h, o) ==
    IF o.res = "Ok"
    THEN [h EXCEPT !.edited = TRUE, !.saved = None, !.released = None,
                   !.decoded = FALSE, !.loads = Loads(h, o)]
    ELSE h

Saved(h, o) ==
    Some([ret |-> o.ret[1],
          stores |-> NStores(o.calls)
                     + (IF h.saved = None THEN 0 ELSE h.saved[1].stores)])

AfterSave(h, o) ==
    IF o.res = "Ok"
    THEN [h EXCEPT !.edited = FALSE, !.saved = Saved(h, o), !.released = None,
                   !.stored = @ \/ NStores(o.calls) > 0, !.decoded = FALSE]
    ELSE h

AfterFree(h, o, c) ==
    IF o.res = "Ok"
    THEN [h EXCEPT !.edited = FALSE, !.saved = Saved(h, o),
                   !.released = Some(c.value),
                   !.stored = @ \/ NStores(o.calls) > 0, !.decoded = FALSE,
                   !.loads = 0]
    ELSE h

----------------------------------------------------------------------------
(* The state machine *)

Built(op, c, born) ==
    /\ cell' = c
    /\ last' = Constructed(op)
    /\ hist' = Fresh(born)
    /\ UNCHANGED blocks

Init ==
    /\ cell \in {Link_new(k) : k \in Cids}
            \cup {Link_from_value(v, sh) : v \in Values, sh \in Option(Shapes)}
            \cup {AutoLink_from_cid(k) : k \in Cids}
            \cup {AutoLink_from_value(v) : v \in Values}
    /\ blocks = <<>>
    /\ last = Constructed(IF cell.value = None THEN "new" ELSE "from_value")
    /\ hist = Fresh(IF cell.kind = "Link" /\ cell.value = None
                    THEN Some([codec |-> cell.state.k.codec,
                               mh_code |-> cell.state.k.mh_code])
                    ELSE None)

\* An operation's outcome becomes the next state.
Done(op, o, c, h) ==
    /\ Cardinality(DOMAIN o.blocks) <= MaxBlocks
    /\ cell' = c
    /\ blocks' = o.blocks
    /\ last' = Record(op, o, cell, hist)
    /\ hist' = h

NewLink ==
    \E k \in Cids :
        Built("new", Link_new(k),
              Some([codec |-> k.codec, mh_code |-> k.mh_code]))

LinkFromValue ==
    \E v \in Values, sh \in Option(Shapes) :
        Built("from_value", Link_from_value(v, sh), None)

AutoFromCid ==
    \E k \in Cids : Built("new", AutoLink_from_cid(k), None)

AutoFromValue ==
    \E v \in Values : Built("from_value", AutoLink_from_value(v), None)

\* A cell c decoded from node n; a node that does not decode builds no
\* cell.
Rebuilt(n, d, c, born) ==
    /\ d.ok
    /\ cell' = c.v
    /\ last' = Deserialized(c.v.kind, n, d)
    /\ hist' = [Fresh(born) EXCEPT !.decoded = TRUE]
    /\ UNCHANGED blocks

\* Deserializing the structure that was just serialized: the node the cell
\* was written as is read back, as a Link or as an AutoLink.
LinkDeserialize ==
    /\ last.op = "serialize" /\ last.res = "Ok"
    /\ LET n == last.ret[1]
           d == Cid_deserialize(n)
       IN  Rebuilt(n, d, Link_deserialize(n),
                   IF d.ok
                   THEN Some([codec |-> d.v.codec, mh_code |-> d.v.mh_code])
                   ELSE None)

AutoDeserialize ==
    /\ last.op = "serialize" /\ last.res = "Ok"
    /\ LET n == last.ret[1]
       IN  Rebuilt(n, MaybeLink_deserialize(n), AutoLink_deserialize(n), None)

LinkRead ==
    /\ cell.kind = "Link"
    /\ \E f \in LoadFaults :
        LET o == Link_read(cell, blocks, f)
        IN  Done("read", o, o.cell, AfterRead(hist, o))

\* edit, and the caller's assignment of w through the returned reference
\* (w may be the value already there).
LinkEdit ==
    /\ cell.kind = "Link"
    /\ \E f \in LoadFaults, w \in Values :
        LET o == Link_edit(cell, blocks, f)
        IN  Done("edit", o, IF o.res = "Ok" THEN write(o.cell, w) ELSE o.cell,
                 AfterEdit(hist, o))

LinkSave ==
    /\ cell.kind = "Link"
    /\ \E f \in StoreFaults, own \in Shapes :
        LET o == Link_save(cell, blocks, own, f)
        IN  Done("save", o, o.cell, AfterSave(hist, o))

LinkFree ==
    /\ cell.kind = "Link"
    /\ \E f \in StoreFaults, own \in Shapes :
        LET o == Link_free(cell, blocks, own, f)
        IN  Done("free", o, o.cell, AfterFree(hist, o, cell))

AutoRead ==
    /\ cell.kind = "AutoLink"
    /\ \E f \in LoadFaults :
        LET o == AutoLink_read(cell, blocks, f)
        IN  Done("read", o, o.cell, AfterRead(hist, o))

AutoEdit ==
    /\ cell.kind = "AutoLink"
    /\ \E f \in LoadFaults, w \in Values :
        LET o == AutoLink_edit(cell, blocks, f)
        IN  Done("edit", o, IF o.res = "Ok" THEN write(o.cell, w) ELSE o.cell,
                 AfterEdit(hist, o))

AutoSave ==
    /\ cell.kind = "AutoLink"
    /\ \E f \in StoreFaults, own \in Shapes :
        LET o == AutoLink_save(cell, blocks, own, f)
        IN  Done("save", o, o.cell, AfterSave(hist, o))

\* Serializing the structure that holds the cell: the cell is saved on the
\* way, so the history moves as it does for that save.
LinkSerialize ==
    /\ cell.kind = "Link"
    /\ \E f \in StoreFaults, own \in Shapes :
        LET o == Link_serialize(cell, blocks, own, f)
        IN  Done("serialize", o, o.cell,
                 AfterSave(hist, Link_save(cell, blocks, own, f)))

AutoSerialize ==
    /\ cell.kind = "AutoLink"
    /\ \E f \in StoreFaults, own \in Shapes :
        LET o == AutoLink_serialize(cell, blocks, own, f)
        IN  Done("serialize", o, o.cell,
                 AfterSave(hist, AutoLink_save(cell, blocks, own, f)))

Next ==
    \/ NewLink
    \/ LinkFromValue
    \/ AutoFromCid
    \/ AutoFromValue
    \/ LinkRead
    \/ LinkEdit
    \/ LinkSave
    \/ LinkFree
    \/ AutoRead
    \/ AutoEdit
    \/ AutoSave
    \/ LinkDeserialize
    \/ AutoDeserialize
    \/ LinkSerialize
    \/ AutoSerialize

Spec == Init /\ [][Next]_vars

----------------------------------------------------------------------------
(* The decoders alone, over every shape of node *)

\* Most presence markers around a node.
MaxSome == 2

\* The byte strings on the wire: values of T and addresses.
ByteStrings == Values \cup {CidBytes(k) : k \in Cids}

\* The nodes without a presence marker: the primitives, none, unit,
\* sequences and mappings, and the wrapper around each of them.
Leaves ==
    {NPrim("bool", TRUE), NPrim("u64", 7), NPrim("str", "ab"), NNone, NUnit,
     NMap(<<>>)}
        \cup {NBytes(b) : b \in ByteStrings}
        \cup {NSeq(v) : v \in Values}
Unmarked == Leaves \cup {NNewtype(n) : n \in Leaves}

RECURSIVE Marked(_)
Marked(j) ==
    IF j = 0 THEN Unmarked
    ELSE Marked(j - 1) \cup {NSome(n) : n \in Marked(j - 1)}

Nodes == Marked(MaxSome)

\* The node inside the presence markers.
RECURSIVE Strip(_)
Strip(n) == IF n.form = "some" THEN Strip(n.inner) ELSE n

\* No cell: nothing decoded yet, or the node did not decode.
NoCell == [kind |-> "None"]

\* What a deserialization of n leaves: the cell c when it decodes.
Decode(n, d, c, kind) ==
    /\ cell' = IF c.ok THEN c.v ELSE NoCell
    /\ last' = Deserialized(kind, n, d)
    /\ hist' = [Fresh(None) EXCEPT !.decoded = c.ok]
    /\ UNCHANGED blocks

DecInit ==
    /\ cell = NoCell
    /\ blocks = <<>>
    /\ last = Constructed("none")
    /\ hist = Fresh(None)

LinkDecode ==
    \E n \in Nodes : Decode(n, Cid_deserialize(n), Link_deserialize(n), "Link")

AutoDecode ==
    \E n \in Nodes :
        Decode(n, MaybeLink_deserialize(n), AutoLink_deserialize(n), "AutoLink")

DecNext ==
    \/ LinkDecode
    \/ AutoDecode

DecodeSpec == DecInit /\ [][DecNext]_vars

----------------------------------------------------------------------------
(* Properties.  Each is a statement about the last operation (last), the   *)
(* cell it started from (last.pre) and the state it left.                   *)

IsLink == cell.kind = "Link"
IsAuto == cell.kind = "AutoLink"
Ran(op) == last.op = op
Succeeded(op) == last.op = op /\ last.res = "Ok"

\* The store_bytes calls of the last operation.
StoreCalls == {i \in 1..Len(last.calls) : last.calls[i].fn = "store_bytes"}

\* The backend calls a load of k makes when it succeeds with value v.
LoadCalls(k, v) ==
    <<Call("load_bytes", k, None, TRUE, Some(encode(v))),
      Call("decode", encode(v), None, TRUE, Some(v))>>

\* The backend calls a store of v under hint h makes when it returns a.
StoreCallsOf(v, h, a) ==
    <<Call("encode", v, None, TRUE, Some(encode(v))),
      Call("store_bytes", encode(v), h, TRUE, Some(a))>>

ShapeOf(k) == [codec |-> k.codec, mh_code |-> k.mh_code]

\* C1: Link dirty tracking.  When an edit has succeeded since the cell was
\* built or last saved, a successful save makes a store_bytes call and
\* returns the address that call produced, whether or not the caller
\* changed the value.
C1_DirtyTracking ==
    (IsLink /\ Succeeded("save") /\ last.pre.edited)
        => \E i \in StoreCalls :
              /\ last.calls[i].ok
              /\ last.calls[i].out = last.ret

\* C1 witness: a Link built from an address, edited with the value left as
\* it was (the backend still holds one block), and saved with a store.
C1_Witness ==
    /\ IsLink /\ Succeeded("save") /\ last.pre.edited
    /\ hist.born # None
    /\ StoreCalls # {}
    /\ Cardinality(DOMAIN blocks) = 1

\* C2: a successful Link.save() on Modified(hint) encodes the cached value
\* and stores it once, passing exactly the hint of the state, leaves the
\* cell Unmodified(a) for the address a the store returned, returns a and
\* keeps the cached value.
C2_SaveModified ==
    (IsLink /\ Succeeded("save") /\ last.pre.cell.state.tag = "Modified")
        => LET v == last.pre.cell.value[1]
               h == last.pre.cell.state.shape
               a == last.ret[1]
           IN  /\ last.calls = StoreCallsOf(v, h, a)
               /\ cell.state = Unmodified(a)
               /\ cell.value = Some(v)
               /\ a \in DOMAIN blocks /\ blocks[a] = encode(v)

\* C2 witness: a save of a Modified cell that held a hint.
C2_Witness ==
    /\ IsLink /\ Succeeded("save")
    /\ last.pre.cell.state.tag = "Modified"
    /\ last.pre.cell.state.shape # None

\* C3: Link.save() on Unmodified(a) returns a, makes no backend call and
\* leaves the state and the cache as they were.
C3_SaveUnmodified ==
    (IsLink /\ Ran("save") /\ last.pre.cell.state.tag = "Unmodified")
        => /\ last.res = "Ok"
           /\ last.ret = Some(last.pre.cell.state.k)
           /\ last.calls = <<>>
           /\ cell = last.pre.cell

\* C3 witness: a save of an Unmodified cell whose cache is populated.
C3_Witness ==
    /\ IsLink /\ Ran("save")
    /\ last.pre.cell.state.tag = "Unmodified"
    /\ last.pre.cell.value # None

\* C4: idempotent save, Link and AutoLink.  A successful save that follows
\* a successful save (or free) with no successful edit between them returns
\* what that one returned, and together they made at most one store_bytes
\* call.
C4_IdempotentSave ==
    (Succeeded("save") /\ last.pre.saved # None)
        => /\ last.ret = Some(last.pre.saved[1].ret)
           /\ hist.saved[1].stores <= 1

\* C4 witness: the second save of an AutoLink whose first save stored it.
C4_Witness ==
    /\ IsAuto /\ Succeeded("save") /\ last.pre.saved # None
    /\ hist.saved[1].stores = 1
    /\ last.calls = <<>>

\* C5: Link.edit().  From Unmodified(a) a successful edit leaves the cache
\* populated, loading a only if the cache was empty, and the state
\* Modified(Some(shape of a)); from Modified(h) it makes no backend call
\* and leaves the state Modified(h).
C5_Edit ==
    (IsLink /\ Ran("edit"))
        => LET p == last.pre.cell
           IN  /\ (p.state.tag = "Unmodified" /\ last.res = "Ok")
                    => /\ cell.value # None
                       /\ cell.state = Modified(Some(ShapeOf(p.state.k)))
                       /\ p.value # None => last.calls = <<>>
                       /\ p.value = None
                            => last.calls = LoadCalls(p.state.k, last.ret[1])
               /\ p.state.tag = "Modified"
                    => /\ last.res = "Ok"
                       /\ last.calls = <<>>
                       /\ cell.state = p.state

\* C5 witness: an edit of an Unmodified cell with an empty cache.
C5_Witness ==
    /\ IsLink /\ Succeeded("edit")
    /\ last.pre.cell.state.tag = "Unmodified"
    /\ last.pre.cell.value = None

\* C6: read, of Link and AutoLink, never changes the state.  With the cache
\* populated it makes no backend call and changes nothing; with the cache
\* empty a successful read fills it with the decoded content of the cell's
\* address and a failed one changes nothing.
C6_Read ==
    Ran("read")
        => LET p == last.pre.cell
           IN  /\ cell.state = p.state
               /\ last.res # "Ok" => cell = p
               /\ p.value # None
                    => /\ last.calls = <<>>
                       /\ last.res = "Ok" /\ last.ret = p.value
                       /\ cell = p
               /\ (p.value = None /\ last.res = "Ok")
                    => /\ p.state.tag \in {"Unmodified", "Link"}
                       /\ p.state.k \in DOMAIN blocks
                       /\ cell.value = Some(decode(blocks[p.state.k]).v)
                       /\ last.ret = cell.value
                       /\ last.calls = LoadCalls(p.state.k, cell.value[1])

\* C6 witness: a read that filled the empty cache of an AutoLink.
C6_Witness ==
    /\ IsAuto /\ Succeeded("read")
    /\ last.pre.cell.value = None
    /\ cell.value # None

\* C7: shape-hint reuse.  A Link built from an address of shape (X, Y)
\* keeps (X, Y) through every round of edit and save: its state is
\* Unmodified at an address of that shape or Modified with that hint, and
\* every store_bytes call of its saves passes the hint (X, Y) and, the
\* backend following hints, returns an address of shape (X, Y).
C7_ShapeHintReuse ==
    (IsLink /\ hist.born # None)
        => LET sh == hist.born[1]
           IN  /\ cell.state.tag = "Unmodified" => ShapeOf(cell.state.k) = sh
               /\ cell.state.tag = "Modified" => cell.state.shape = Some(sh)
               /\ \A i \in StoreCalls :
                     /\ last.calls[i].shape = Some(sh)
                     /\ last.calls[i].ok => ShapeOf(last.calls[i].out[1]) = sh

\* C7 witness: a second storing save of a Link built from an address.
C7_Witness ==
    /\ IsLink /\ hist.born # None
    /\ Succeeded("save") /\ StoreCalls # {}
    /\ last.pre.stored
    /\ ShapeOf(cell.state.k) = hist.born[1]

\* C8: release then reload.  A successful free leaves the cell
\* Unmodified(a) with an empty cache, a being the address it returned: the
\* one the cell held, or the one its store produced.  A successful read
\* after it loads from a, returns the value the cell cached before the
\* release and leaves the state Unmodified(a).
C8_ReleaseReload ==
    /\ (IsLink /\ Succeeded("free"))
         => LET p == last.pre.cell
            IN  /\ cell.value = None
                /\ cell.state = Unmodified(last.ret[1])
                /\ p.state.tag = "Unmodified"
                     => last.ret = Some(p.state.k) /\ last.calls = <<>>
                /\ p.state.tag = "Modified"
                     => last.calls
                          = StoreCallsOf(p.value[1], p.state.shape, last.ret[1])
    /\ (IsLink /\ Succeeded("read") /\ last.pre.released # None)
         => LET p == last.pre.cell
            IN  /\ last.calls = LoadCalls(p.state.k, last.ret[1])
                /\ last.pre.released[1] # None
                     => last.ret = last.pre.released[1]
                /\ cell.state = p.state

\* C8 witness: a read after the release of a cell that had cached a value.
C8_Witness ==
    /\ IsLink /\ Succeeded("read")
    /\ last.pre.released # None
    /\ last.pre.released[1] # None

\* C9: round trip for Link.  A successful save of a cell whose cache holds
\* v returns an address whose backend load yields v.
C9_RoundTrip ==
    (IsLink /\ Succeeded("save") /\ last.pre.cell.value # None)
        => LET l == load(blocks, last.ret[1], "none")
           IN  l.ok /\ Some(l.v) = last.pre.cell.value

\* C9 witness: a save, after an edit, of a cell built from an address.
C9_Witness ==
    /\ IsLink /\ Succeeded("save") /\ last.pre.cell.value # None
    /\ last.pre.edited /\ hist.born # None
    /\ Cardinality(DOMAIN blocks) = 2

\* C10: inlining threshold.  A successful AutoLink.save() on Modified
\* encodes the cached value; at an encoded length of at most S it makes no
\* store call, leaves the state Inlined and returns the value; above S it
\* calls store_bytes once with the encoded bytes and no hint, leaves the
\* state Link(a) for the returned address a and returns a.
C10_InliningThreshold ==
    (IsAuto /\ Succeeded("save") /\ last.pre.cell.state.tag = "Modified")
        => LET v == last.pre.cell.value[1]
           IN  IF Len(encode(v)) <= S
               THEN /\ last.calls
                         = <<Call("encode", v, None, TRUE, Some(encode(v)))>>
                    /\ cell.state = Inlined
                    /\ last.ret = Some(MaybeValue(v))
               ELSE /\ last.ret[1].tag = "Link"
                    /\ last.calls = StoreCallsOf(v, None, last.ret[1].k)
                    /\ cell.state = InlineLink(last.ret[1].k)

\* C10 witness: a value whose encoding is exactly S bytes, saved inline.
C10_Witness ==
    /\ IsAuto /\ Succeeded("save") /\ last.pre.cell.state.tag = "Modified"
    /\ Len(encode(last.pre.cell.value[1])) = S
    /\ cell.state = Inlined

C14_ShapeDisambiguation ==
    (Ran("deserialize") /\ last.kind = "AutoLink")
        => LET n == Strip(last.node)
               valid == n.inner.form = "bytes" /\ Cid_try_from(n.inner.val).ok
               t == T_deserialize(n)
           IN  /\ (last.res = "Ok" /\ last.ret[1].tag = "Link")
                    => n.form = "newtype"
               /\ (last.res = "Ok" /\ last.ret[1].tag = "Value")
                    => n.form # "newtype"
               /\ n.form = "newtype"
                    => IF valid
                       THEN last.ret
                              = Some(MaybeLinkTo(Cid_try_from(n.inner.val).v))
                       ELSE last.res = "Err"
               /\ n.form \in {"bool", "u64", "str", "bytes", "none", "seq",
                              "map"}
                    => IF t.ok THEN last.ret = Some(MaybeValue(t.v))
                       ELSE last.res = "Err"

\* C14 witness: a plain byte string that holds the bytes of an address,
\* inside a presence marker, decoded as a Value.
C14_Witness ==
    /\ Ran("deserialize") /\ last.kind = "AutoLink"
    /\ last.node.form = "some"
    /\ Strip(last.node).form = "bytes"
    /\ Cid_try_from(Strip(last.node).val).ok
    /\ last.res = "Ok" /\ last.ret[1].tag = "Value"

\* C15: backend errors are surfaced and never retried.  In a read, edit,
\* save or free of either cell, a backend call that fails is the last call
\* the operation makes and the operation returns the error; an operation
\* that returns an error made a call that failed.
C15_ErrorsSurfaced ==
    last.op \in {"read", "edit", "save", "free"}
        => /\ \A i \in 1..Len(last.calls) :
                 ~last.calls[i].ok
                    => /\ i = Len(last.calls)
                       /\ last.res = "Err"
           /\ last.res # "Ok"
                => /\ last.res = "Err"
                   /\ last.calls # <<>>
                   /\ ~last.calls[Len(last.calls)].ok

\* C15 witness: a free of a Link whose encode succeeded and whose
\* store_bytes failed.
C15_Witness ==
    /\ IsLink /\ Ran("free") /\ last.res = "Err"
    /\ Len(last.calls) = 2
    /\ last.calls[1].ok /\ ~last.calls[2].ok

\* C16: encoding contract of Link.  Serializing a Link saves it (a Modified
\* cell is stored under its hint, an Unmodified one makes no call), leaves
\* it Unmodified(a) with the cache as it was, and writes the wrapped bytes
\* of a and never the value; when the save fails nothing is written and the
\* cell is as before.  Deserializing makes no backend call and yields
\* Unmodified(a), cache empty, for the address a the node holds; until a
\* read or an edit a save, free or serialize of that cell makes no backend
\* call either.
C16_LinkEncoding ==
    /\ (IsLink /\ Succeeded("serialize"))
         => LET p == last.pre.cell
                n == last.ret[1]
            IN  /\ cell.state.tag = "Unmodified"
                /\ n = NNewtype(NBytes(CidBytes(cell.state.k)))
                /\ cell.value = p.value
                /\ p.value # None => n # T_serialize(p.value[1])
                /\ p.state.tag = "Unmodified"
                     => last.calls = <<>> /\ cell = p
                /\ p.state.tag = "Modified"
                     => last.calls
                          = StoreCallsOf(p.value[1], p.state.shape, cell.state.k)
    /\ (IsLink /\ Ran("serialize") /\ last.res # "Ok")
         => last.res = "Err" /\ last.ret = None /\ cell = last.pre.cell
    /\ (IsLink /\ Ran("deserialize"))
         => /\ last.res = "Ok" /\ last.calls = <<>>
            /\ last.node = NNewtype(NBytes(CidBytes(last.ret[1])))
            /\ cell.state = Unmodified(last.ret[1])
            /\ cell.value = None
    /\ (IsLink /\ last.op \in {"save", "free", "serialize"}
          /\ last.pre.decoded /\ last.pre.cell.value = None)
         => last.calls = <<>>

\* C16 witness: a Modified Link serialized: its value is stored and the
\* node is the wrapped address.
C16_Witness ==
    /\ IsLink /\ Succeeded("serialize")
    /\ last.pre.cell.state.tag = "Modified"
    /\ StoreCalls # {}
    /\ last.ret[1].form = "newtype"
    /\ cell.value # None

\* C17: value presence.  In every reachable state a Link in state Modified
\* and an AutoLink in state Modified or Inlined hold a cached value, so a
\* cell with an empty cache is Unmodified or Link; and no operation ends
\* in one of the panics ("modified link has no value", "expected value",
\* "expected link to be unmodified", "expected an external reference"),
\* failing backend calls included.
C17_ValuePresence ==
    /\ (IsLink /\ cell.state.tag = "Modified") => cell.value # None
    /\ (IsAuto /\ cell.state.tag \in {"Modified", "Inlined"})
         => cell.value # None
    /\ (IsLink /\ cell.value = None) => cell.state.tag = "Unmodified"
    /\ (IsAuto /\ cell.value = None) => cell.state.tag = "Link"
    /\ last.res # "Panic"

\* C17 witness: an edit whose load failed: the cache is still empty and the
\* cell still Unmodified.
C17_Witness ==
    /\ IsLink /\ Ran("edit") /\ last.res = "Err"
    /\ cell.value = None
    /\ cell.state.tag = "Unmodified"

\* C18: the cache is filled at most once.  An operation calls load_bytes
\* only when the cache is empty.  A populated cache is left as it is by
\* read, save and serialize, is changed by an edit through the returned
\* reference alone (the edit makes no backend call), and is emptied only by
\* a successful free of a Link.  The loads that succeed, counted over the
\* life of an AutoLink and between two releases of a Link, are at most one.
C18_CacheFillOnce ==
    /\ last.op \in {"read", "edit", "save", "free", "serialize"}
         => LET p == last.pre.cell
            IN  /\ (\E i \in 1..Len(last.calls) :
                        last.calls[i].fn \in {"load_bytes", "decode"})
                     => p.value = None
                /\ (p.value # None /\ last.op \in {"read", "save", "serialize"})
                     => cell.value = p.value
                /\ (p.value # None /\ Ran("edit")) => last.calls = <<>>
                /\ (p.value # None /\ cell.value = None)
                     => IsLink /\ Succeeded("free")
    /\ hist.loads <= 1

\* C18 witness: an AutoLink in state Link that has loaded its value, read
\* again with no backend call.
C18_Witness ==
    /\ IsAuto /\ Succeeded("read")
    /\ last.pre.cell.state.tag = "Link"
    /\ last.pre.cell.value # None
    /\ hist.loads = 1
    /\ last.calls = <<>>

\* C19: decoding does not apply the threshold, the next save does.  An
\* AutoLink decoded from an inline node is Modified with the decoded value
\* cached, never Inlined, whatever the length of its encoding; decoded from
\* a wrapped address a it is Link(a) with an empty cache.  A decoded cell
\* that is saved with no edit since, and whose value encodes to more than S
\* bytes, is stored: the save calls store_bytes, returns the address and
\* leaves the cell Link; at S bytes or fewer it becomes Inlined.
C19_DecodeThenSave ==
    /\ (IsAuto /\ Ran("deserialize"))
         => /\ last.res = "Ok"
            /\ last.node.form # "newtype"
                 => /\ last.ret[1].tag = "Value"
                    /\ cell.state = InlineModified
                    /\ cell.value = Some(last.ret[1].v)
            /\ last.node.form = "newtype"
                 => /\ last.ret[1].tag = "Link"
                    /\ last.node.inner.val = CidBytes(last.ret[1].k)
                    /\ cell.state = InlineLink(last.ret[1].k)
                    /\ cell.value = None
    /\ (IsAuto /\ Succeeded("save") /\ last.pre.decoded
          /\ last.pre.cell.state.tag = "Modified")
         => IF Len(encode(last.pre.cell.value[1])) > S
            THEN /\ StoreCalls # {}
                 /\ last.ret[1].tag = "Link"
                 /\ cell.state = InlineLink(last.ret[1].k)
            ELSE cell.state = Inlined

\* C19 witness: a value decoded from an inline node, longer than S when
\* encoded, stored by the save that follows the decoding.
C19_Witness ==
    /\ IsAuto /\ Succeeded("save") /\ last.pre.decoded
    /\ last.pre.cell.state.tag = "Modified"
    /\ Len(encode(last.pre.cell.value[1])) > S
    /\ cell.state.tag = "Link"

\* C20: state unchanged on error.  A read, edit, save or free that returns a
\* backend error leaves the state and the cache of the cell exactly as they
\* were and has stored nothing: after a failed load the cell is still
\* Unmodified or Link with an empty cache, after a failed encode or store
\* it is still Modified with the same hint and value, and a free whose save
\* failed has kept the cache.  Repeated with a backend that does not fail,
\* a save or a free then succeeds, and so does a read or an edit when the
\* backend holds the cell's address.
C20_UnchangedOnError ==
    (last.op \in {"read", "edit", "save", "free"} /\ last.res = "Err")
        => LET p == last.pre.cell
           IN  /\ cell = p
               /\ \A i \in StoreCalls : ~last.calls[i].ok
               /\ last.op \in {"read", "edit"}
                    => /\ cell.state.tag \in {"Unmodified", "Link"}
                       /\ cell.value = None
                       /\ cell.state.k \in DOMAIN blocks
                            => IF IsLink
                               THEN /\ Link_read(cell, blocks, "none").res = "Ok"
                                    /\ Link_edit(cell, blocks, "none").res = "Ok"
                               ELSE /\ AutoLink_read(cell, blocks, "none").res = "Ok"
                                    /\ AutoLink_edit(cell, blocks, "none").res = "Ok"
               /\ last.op \in {"save", "free"}
                    => /\ cell.state.tag = "Modified"
                       /\ cell.value # None
                       /\ \A own \in Shapes :
                             IF IsLink
                             THEN /\ Link_save(cell, blocks, own, "none").res = "Ok"
                                  /\ Link_free(cell, blocks, own, "none").res = "Ok"
                             ELSE AutoLink_save(cell, blocks, own, "none").res = "Ok"

\* C20 witness: a free of a Modified Link whose store failed: the cell still
\* holds its hint and its value.
C20_Witness ==
    /\ IsLink /\ Ran("free") /\ last.res = "Err"
    /\ cell.state.tag = "Modified"
    /\ cell.state.shape # None
    /\ cell.value # None
    /\ Len(last.calls) = 2

\* C21: clean-state coherence.  In every reachable state a Link that is
\* Unmodified(a), and an AutoLink that is Link(a), with a populated cache
\* caches exactly what the backend's load of a returns: the backend holds
\* a, its content decodes, and the decoded value is the cached one.  The
\* backend never changes what it has stored and its decode inverts encode.
C21_CleanCoherence ==
    (cell.kind \in {"Link", "AutoLink"}
        /\ cell.state.tag \in {"Unmodified", "Link"}
        /\ cell.value # None)
        => LET l == load(blocks, cell.state.k, "none")
           IN  /\ cell.state.k \in DOMAIN blocks
               /\ l.ok
               /\ Some(l.v) = cell.value

\* C21 witness: an AutoLink that was edited and then stored by a save: the
\* cache holds the edited value and the new address holds it too, beside
\* the block of the value before.
C21_Witness ==
    /\ IsAuto /\ Succeeded("save") /\ last.pre.edited
    /\ cell.state.tag = "Link"
    /\ cell.value # None
    /\ StoreCalls # {}
    /\ Cardinality(DOMAIN blocks) = 2

====
